---- MODULE Spec2Model ----
(***************************************************************************)
(* Model of src/Week5.ipynb: the split-finding functions of the notebook   *)
(* (splits, split_data, MAE, get_best_split).                              *)
(*                                                                         *)
(* The arrays are numpy integer arrays.  The floating point values the     *)
(* functions compute are IEEE 754 binary64 values: every operation is      *)
(* computed exactly on naturals of 120 bits and rounded to nearest, ties   *)
(* to even, so that two scores the notebook computes one unit in the last  *)
(* place apart are that far apart here.  NaN is what numpy yields for the  *)
(* mean of an empty array and what every later operation propagates;       *)
(* comparisons with NaN are false.                                         *)
(***************************************************************************)
EXTENDS Integers, Sequences, FiniteSets

VARIABLES
    arg_data,    \* the two-dimensional array given to splits_per_col (rows)
    ret_cols,    \* what splits_per_col returned
    arg_x,       \* the feature array of the call (data[:,0])
    arg_y,       \* the target array of the call (data[:,1])
    arg_pt,      \* the threshold given to split_data
    pc,          \* "idle": nothing called yet; "split": split_data returned; "done"
    called,      \* the function called last
    raised,      \* the exception the call ended with, or "none"
    ret_splits,  \* what splits returned
    ret_parts,   \* what split_data returned
    ret_mae,     \* what MAE returned
    ret_gbs,     \* what get_best_split returned
    hist,        \* the arrays as given and each function's first outcome
    conc,        \* concurrent callers of get_best_split: each one's locals
    frames       \* the results dict of each call frame

vars == <<arg_data, ret_cols, arg_x, arg_y, arg_pt, pc, called, raised,
          ret_splits, ret_parts, ret_mae, ret_gbs, hist, conc, frames>>

\* ------------------------------------------------------------------ bounds
MaxLen == 3
MaxX == 2
MaxY == 2
MaxRows == 2
MaxCols == 2

\* ------------------------------------------------- floating point values
\* A float64 is [nan, neg, m, e] with value (-1)^neg * m * 2^e, where the
\* mantissa m is a natural of four limbs in base 2^15, least significant
\* first, that is 0 (then e = 0 and neg = FALSE) or has exactly 53 bits.
\* Every operation computes its exact result as a wide natural of eight
\* limbs (120 bits) and rounds it to nearest, ties to even, as IEEE 754
\* does.  Overflow, subnormals and -0.0 do not arise from the notebook's
\* arrays.
Abs(i) == IF i < 0 THEN -i ELSE i

Base == 32768

Limb(a, i) == IF 1 <= i /\ i <= Len(a) THEN a[i] ELSE 0

\* A mantissa as a wide natural.
Wide(a) == <<a[1], a[2], a[3], a[4], 0, 0, 0, 0>>

\* a + b and a - b on wide naturals (a >= b for a - b): limb by limb with
\* the carry, which \div makes -1 for a borrow.
WAdd(a, b) ==
    LET s1 == a[1] + b[1]
        s2 == a[2] + b[2] + (s1 \div Base)
        s3 == a[3] + b[3] + (s2 \div Base)
        s4 == a[4] + b[4] + (s3 \div Base)
        s5 == a[5] + b[5] + (s4 \div Base)
        s6 == a[6] + b[6] + (s5 \div Base)
        s7 == a[7] + b[7] + (s6 \div Base)
        s8 == a[8] + b[8] + (s7 \div Base)
    IN  <<s1 % Base, s2 % Base, s3 % Base, s4 % Base,
          s5 % Base, s6 % Base, s7 % Base, s8 % Base>>

WSub(a, b) ==
    LET s1 == a[1] - b[1]
        s2 == a[2] - b[2] + (s1 \div Base)
        s3 == a[3] - b[3] + (s2 \div Base)
        s4 == a[4] - b[4] + (s3 \div Base)
        s5 == a[5] - b[5] + (s4 \div Base)
        s6 == a[6] - b[6] + (s5 \div Base)
        s7 == a[7] - b[7] + (s6 \div Base)
        s8 == a[8] - b[8] + (s7 \div Base)
    IN  <<s1 % Base, s2 % Base, s3 % Base, s4 % Base,
          s5 % Base, s6 % Base, s7 % Base, s8 % Base>>

\* a < b on naturals of the same number of limbs: the highest limb that
\* differs decides.
RECURSIVE LtAt(_, _, _)
LtAt(a, b, i) ==
    IF i = 0 THEN FALSE
    ELSE IF a[i] # b[i] THEN a[i] < b[i]
    ELSE LtAt(a, b, i - 1)

WLt(a, b) == LtAt(a, b, Len(a))

\* a * d for a mantissa a and a limb d: five limbs.
MulLimb(a, d) ==
    LET t1 == a[1] * d
        t2 == a[2] * d + (t1 \div Base)
        t3 == a[3] * d + (t2 \div Base)
        t4 == a[4] * d + (t3 \div Base)
    IN  <<t1 % Base, t2 % Base, t3 % Base, t4 % Base, t4 \div Base>>

\* The sum of the four rows r[j] * Base^(j-1), column by column.
AddRows(r1, r2, r3, r4) ==
    LET c2 == r1[2] + r2[1]
        c3 == r1[3] + r2[2] + r3[1] + (c2 \div Base)
        c4 == r1[4] + r2[3] + r3[2] + r4[1] + (c3 \div Base)
        c5 == r1[5] + r2[4] + r3[3] + r4[2] + (c4 \div Base)
        c6 == r2[5] + r3[4] + r4[3] + (c5 \div Base)
        c7 == r3[5] + r4[4] + (c6 \div Base)
        c8 == r4[5] + (c7 \div Base)
    IN  <<r1[1], c2 % Base, c3 % Base, c4 % Base, c5 % Base, c6 % Base,
          c7 % Base, c8>>

\* a * b for two mantissas: the four rows a * b[j], added.
WMul(a, b) ==
    AddRows(MulLimb(a, b[1]), MulLimb(a, b[2]), MulLimb(a, b[3]), MulLimb(a, b[4]))

\* [q, r] with 2^30 * a = q * d + r, 0 <= r < d, for a mantissa a and
\* 0 < d <= 2^15.
DivLimb(a, d) ==
    LET t6 == a[4]
        t5 == (t6 % d) * Base + a[3]
        t4 == (t5 % d) * Base + a[2]
        t3 == (t4 % d) * Base + a[1]
        t2 == (t3 % d) * Base
        t1 == (t2 % d) * Base
    IN  [q |-> <<t1 \div d, t2 \div d, t3 \div d, t4 \div d, t5 \div d, t6 \div d,
                 0, 0>>,
         r |-> t1 % d]

\* Limb i of a * Base^w * p for a wide natural a and p = 2^j, j < 15, with
\* up = Base / p: the low bits of limb i - w of a and the high bits of the
\* limb below it.
ShlLimb(a, i, w, p, up) == (Limb(a, i - w) % up) * p + (Limb(a, i - w - 1) \div up)

\* Limb i of a \div (Base^w * p), likewise.
ShrLimb(a, i, w, p, up) == (Limb(a, i + w) \div p) + (Limb(a, i + w + 1) % p) * up

\* a * Base^w * p for a wide natural that stays below 2^120.
WShlBy(a, w, p, up) ==
    <<ShlLimb(a, 1, w, p, up), ShlLimb(a, 2, w, p, up), ShlLimb(a, 3, w, p, up),
      ShlLimb(a, 4, w, p, up), ShlLimb(a, 5, w, p, up), ShlLimb(a, 6, w, p, up),
      ShlLimb(a, 7, w, p, up), ShlLimb(a, 8, w, p, up)>>

\* a * 2^k.
WShl(a, k) == IF k = 0 THEN a ELSE WShlBy(a, k \div 15, 2^(k % 15), 2^(15 - (k % 15)))

\* The four low limbs of a \div (Base^w * p) for a wide natural.
Shr4By(a, w, p, up) ==
    <<ShrLimb(a, 1, w, p, up), ShrLimb(a, 2, w, p, up), ShrLimb(a, 3, w, p, up),
      ShrLimb(a, 4, w, p, up)>>

\* The four low limbs of a \div 2^k.
Shr4(a, k) == Shr4By(a, k \div 15, 2^(k % 15), 2^(15 - (k % 15)))

\* The four low limbs of a * Base^w * p for a wide natural.
Shl4By(a, w, p, up) ==
    <<ShlLimb(a, 1, w, p, up), ShlLimb(a, 2, w, p, up), ShlLimb(a, 3, w, p, up),
      ShlLimb(a, 4, w, p, up)>>

\* The four low limbs of a * 2^k.
Shl4(a, k) == Shl4By(a, k \div 15, 2^(k % 15), 2^(15 - (k % 15)))

\* Bit k (from 0) of a wide natural, and whether one of its bits 0 .. k-1
\* is 1.
Bit(a, k) == (a[(k \div 15) + 1] \div 2^(k % 15)) % 2 = 1

LowBits(a, k) ==
    \/ a[(k \div 15) + 1] % 2^(k % 15) # 0
    \/ \E i \in 1..(k \div 15) : a[i] # 0

\* The number of bits of a limb.
LimbBits(v) ==
    IF v < 256
    THEN IF v < 16
         THEN IF v < 4 THEN (IF v < 2 THEN v ELSE 2) ELSE (IF v < 8 THEN 3 ELSE 4)
         ELSE IF v < 64 THEN (IF v < 32 THEN 5 ELSE 6) ELSE (IF v < 128 THEN 7 ELSE 8)
    ELSE IF v < 4096
         THEN IF v < 1024 THEN (IF v < 512 THEN 9 ELSE 10)
              ELSE (IF v < 2048 THEN 11 ELSE 12)
         ELSE IF v < 16384 THEN (IF v < 8192 THEN 13 ELSE 14) ELSE 15

\* The number of bits of a wide natural.
RECURSIVE BitLenAt(_, _)
BitLenAt(a, i) ==
    IF i = 0 THEN 0
    ELSE IF a[i] # 0 THEN 15 * (i - 1) + LimbBits(a[i])
    ELSE BitLenAt(a, i - 1)

BitLen(a) == BitLenAt(a, 8)

NoLimbs == <<0, 0, 0, 0>>

NaN == [nan |-> TRUE, neg |-> FALSE, m |-> NoLimbs, e |-> 0]

Zero == [nan |-> FALSE, neg |-> FALSE, m |-> NoLimbs, e |-> 0]

IsNaN(a) == a.nan

IsZero(a) == ~a.nan /\ a.m = NoLimbs

\* q + 1 for a mantissa q.
Succ(q) ==
    LET s1 == q[1] + 1
        s2 == q[2] + (s1 \div Base)
        s3 == q[3] + (s2 \div Base)
        s4 == q[4] + (s3 \div Base)
    IN  <<s1 % Base, s2 % Base, s3 % Base, s4>>

\* The float64 (-1)^neg * m * 2^e for a mantissa m of 53 bits, or of 54
\* bits when rounding up carried out of the 53 (m is then 2^53).
Normal(neg, m, e) ==
    IF m[4] = 256
    THEN [nan |-> FALSE, neg |-> neg, m |-> <<0, 0, 0, 128>>, e |-> e + 1]
    ELSE [nan |-> FALSE, neg |-> neg, m |-> m, e |-> e]

\* Whether n with its r low bits cut off, which leaves q, rounds up: the
\* highest bit cut is 1 and the rest is not an exact tie, or q is odd.
RoundsUp(n, r, q, sticky) ==
    Bit(n, r - 1) /\ (sticky \/ LowBits(n, r - 1) \/ q[1] % 2 = 1)

\* n of more than 53 bits, rounded to the 53 bits of q = n \div 2^r.
RoundCut(neg, n, e, sticky, r, q) ==
    Normal(neg, IF RoundsUp(n, r, q, sticky) THEN Succ(q) ELSE q, e + r)

\* Round for n of len bits.
RoundLen(neg, n, e, sticky, len) ==
    IF len = 0 THEN Zero
    ELSE IF len <= 53
    THEN [nan |-> FALSE, neg |-> neg, m |-> Shl4(n, 53 - len), e |-> e - (53 - len)]
    ELSE RoundCut(neg, n, e, sticky, len - 53, Shr4(n, len - 53))

\* The float64 nearest to (-1)^neg * (n + s) * 2^e, where n is a wide
\* natural and s stands for a fraction strictly between 0 and 1 when sticky
\* is TRUE (n then has more than 54 bits) and for 0 otherwise.
Round(neg, n, e, sticky) == RoundLen(neg, n, e, sticky, BitLen(n))

\* float(i) for an integer |i| < 2^30: exact.  An integer of at most 8 bits
\* fills the top limb of the mantissa alone.
FromInt(i) ==
    IF i = 0 THEN Zero
    ELSE IF Abs(i) < 256
    THEN [nan |-> FALSE, neg |-> i < 0,
          m |-> <<0, 0, 0, Abs(i) * 2^(8 - LimbBits(Abs(i)))>>,
          e |-> LimbBits(Abs(i)) - 53]
    ELSE Round(i < 0, <<Abs(i) % Base, Abs(i) \div Base, 0, 0, 0, 0, 0, 0>>, 0, FALSE)

\* (-1)^an * ma * 2^e + (-1)^bn * mb * 2^e for wide naturals ma and mb,
\* rounded: the magnitudes add under equal signs, and otherwise the smaller
\* one is taken from the larger one, whose sign the result has.
AddAligned(an, ma, bn, mb, e) ==
    IF an = bn THEN Round(an, WAdd(ma, mb), e, FALSE)
    ELSE IF ma = mb THEN Zero
    ELSE IF WLt(mb, ma) THEN Round(an, WSub(ma, mb), e, FALSE)
    ELSE Round(bn, WSub(mb, ma), e, FALSE)

\* The sum of two floats that are neither NaN nor zero and whose exponents
\* differ by at most 64: the exact sum of the mantissas brought to the
\* lower exponent lo, rounded.
AddAt(a, b, lo) ==
    AddAligned(a.neg, WShl(Wide(a.m), a.e - lo), b.neg, WShl(Wide(b.m), b.e - lo), lo)

AddExact(a, b) == AddAt(a, b, IF a.e < b.e THEN a.e ELSE b.e)

\* a + b.  An operand more than 64 binary places below the other one does
\* not change it.
FAdd(a, b) ==
    IF IsNaN(a) \/ IsNaN(b) THEN NaN
    ELSE IF IsZero(a) THEN b
    ELSE IF IsZero(b) THEN a
    ELSE IF a.e - b.e > 64 THEN a
    ELSE IF b.e - a.e > 64 THEN b
    ELSE AddExact(a, b)

FNeg(a) == IF IsNaN(a) \/ IsZero(a) THEN a ELSE [a EXCEPT !.neg = ~a.neg]

FSub(a, b) == FAdd(a, FNeg(b))

FMul(a, b) ==
    IF IsNaN(a) \/ IsNaN(b) THEN NaN
    ELSE IF IsZero(a) \/ IsZero(b) THEN Zero
    ELSE Round(a.neg # b.neg, WMul(a.m, b.m), a.e + b.e, FALSE)

\* The quotient qr.q with the remainder qr.r of a division, rounded: a
\* remainder makes the quotient inexact.
RoundQuot(neg, qr, e) == Round(neg, qr.q, e, qr.r # 0)

\* a / d for a float a and an integer 0 <= d <= 2^15: 0.0 / 0 is NaN (a
\* non-zero a over 0 never occurs here).
FDivInt(a, d) ==
    IF IsNaN(a) \/ d = 0 THEN NaN
    ELSE IF IsZero(a) THEN Zero
    ELSE RoundQuot(a.neg, DivLimb(a.m, d), a.e - 30)

\* n / d for integers: Python's true division.
truediv(n, d) == FDivInt(FromInt(n), d)

FAbs(a) == IF IsNaN(a) THEN NaN ELSE [a EXCEPT !.neg = FALSE]

\* a < b on floats of the same sign that are not zero: by magnitude.
MagLt(a, b) == a.e < b.e \/ (a.e = b.e /\ WLt(a.m, b.m))

\* a < b and a == b on floats: false whenever an operand is NaN.
FLt(a, b) ==
    /\ ~IsNaN(a)
    /\ ~IsNaN(b)
    /\ IF IsZero(a) THEN ~IsZero(b) /\ ~b.neg
       ELSE IF IsZero(b) THEN a.neg
       ELSE IF a.neg # b.neg THEN a.neg
       ELSE IF a.neg THEN MagLt(b, a)
       ELSE MagLt(a, b)

FEq(a, b) == ~IsNaN(a) /\ ~IsNaN(b) /\ a = b

\* ------------------------------------------------------- numpy helpers
\* The sum numpy's add.reduce makes of a short array: from 0.0, left to right.
RECURSIVE FSumFrom(_, _, _)
FSumFrom(a, i, acc) ==
    IF i > Len(a) THEN acc ELSE FSumFrom(a, i + 1, FAdd(acc, a[i]))

FSum(a) == FSumFrom(a, 1, Zero)

\* Variant of np_mean: the mean of an empty array taken to be 0.
np_mean_empty_zero(a) == IF Len(a) = 0 THEN Zero ELSE FDivInt(FSum(a), Len(a))

\* np.mean(a): the sum divided by the length; NaN (0.0/0) for an empty array.
np_mean(a) == FDivInt(FSum(a), Len(a))

RECURSIVE IntSum(_)
IntSum(a) == IF a = <<>> THEN 0 ELSE a[1] + IntSum(Tail(a))

\* np.mean(a) for an array of integers: their sum is exact in float64, so
\* the mean is the one division of the sum by the length; NaN when empty.
np_mean_ints(a) == truediv(IntSum(a), Len(a))

\* np.absolute(a - c) for an array a and a scalar c.
abs_dev(a, c) == [i \in 1..Len(a) |-> FAbs(FSub(FromInt(a[i]), c))]

\* a[m]: boolean-mask indexing keeps the elements at the positions where the
\* mask is TRUE, in order; an empty mask has no such position.
RECURSIVE mask_index(_, _)
mask_index(a, m) ==
    IF a = <<>> \/ m = <<>> THEN <<>>
    ELSE (IF m[1] THEN <<a[1]>> ELSE <<>>) \o mask_index(Tail(a), Tail(m))

\* sorted(x): ascending insertion of each element.
RECURSIVE insert_sorted(_, _)
insert_sorted(v, s) ==
    IF s = <<>> THEN <<v>>
    ELSE IF v < s[1] THEN <<v>> \o s
    ELSE <<s[1]>> \o insert_sorted(v, Tail(s))

RECURSIVE sorted(_)
sorted(x) == IF x = <<>> THEN <<>> ELSE insert_sorted(x[1], sorted(Tail(x)))

\* ------------------------------------------------------------- splits
\* Variant of splits: the midpoints of the input as given, not of its sorted copy.
splits_unsorted(x) ==
    [i \in 1..(Len(x) - 1) |-> truediv(x[i] + x[i + 1], 2)]

\* Variant of x_after_splits: the input sorted in place (x.sort()).
x_sorted_in_place(x) == sorted(x)

\* The argument of splits after the call: sorted(x) builds a new list and
\* leaves x as it was.
x_after_splits(x) == x

\* Variant of new_split_ponit_list: the list of the previous call is kept.
kept_split_ponit_list(previous) == previous

\* split_ponit_list = []: every call starts a new list, whatever an earlier
\* call returned.
new_split_ponit_list(previous) == <<>>

\* Variant of splits: the sum of each consecutive pair, not halved.
splits_not_halved(x) ==
    LET x_sorted == sorted(x)
    IN  [i \in 1..(Len(x) - 1) |-> truediv(x_sorted[i] + x_sorted[i + 1], 1)]

\* Variant of splits: the lower element of each consecutive pair.
splits_lower(x) ==
    LET x_sorted == sorted(x)
    IN  [i \in 1..(Len(x) - 1) |-> truediv(x_sorted[i], 1)]

\* Variant of splits: duplicates are removed before pairing.
RECURSIVE dedup(_)
dedup(s) ==
    IF Len(s) < 2 THEN s
    ELSE IF s[1] = s[2] THEN dedup(Tail(s))
    ELSE <<s[1]>> \o dedup(Tail(s))

splits_dedup(x) ==
    LET x_sorted == dedup(sorted(x))
    IN  [i \in 1..(Len(x_sorted) - 1) |-> truediv(x_sorted[i] + x_sorted[i + 1], 2)]

splits(x) ==
    LET x_sorted == sorted(x)
    IN  [i \in 1..(Len(x) - 1) |-> truediv(x_sorted[i] + x_sorted[i + 1], 2)]

\* A call of splits, after a call that returned `previous`: the midpoints
\* are appended to the call's list.
splits_call(previous, x) == new_split_ponit_list(previous) \o splits(x)

\* --------------------------------------------------------- split_data
\* Variant of mask_of: x >= split_pt.
mask_of_ge(x, split_pt) == [i \in 1..Len(x) |-> ~FLt(FromInt(x[i]), split_pt)]

mask_of(x, split_pt) == [i \in 1..Len(x) |-> FLt(split_pt, FromInt(x[i]))]

anti_mask_of(x, split_pt) == [i \in 1..Len(x) |-> FLt(FromInt(x[i]), split_pt)]

\* Whether y[mask] raises IndexError, as the set of the outcomes numpy can
\* give (x[mask] before it always fits: the mask has the length of x).  A
\* mask of the length of y is accepted, and a non-empty mask of another
\* length is refused.  For an empty mask on a non-empty y the code has no
\* check of its own and the outcome is decided inside numpy, the same way
\* at every call of one installation: its check of the mask's length may
\* refuse the mask or may pass over a length of 0, and then no position is
\* selected.
split_data_raises(x, y, split_pt) ==
    IF Len(mask_of(x, split_pt)) = Len(y) THEN {FALSE}
    ELSE IF Len(mask_of(x, split_pt)) = 0 THEN {TRUE, FALSE}
    ELSE {TRUE}

\* Variant of split_data: y_true taken with anti_mask.
split_data_swapped(x, y, split_pt) ==
    LET mask == mask_of(x, split_pt)
        anti_mask == anti_mask_of(x, split_pt)
    IN  [x_true |-> mask_index(x, mask),
         y_true |-> mask_index(y, anti_mask),
         x_false |-> mask_index(x, anti_mask),
         y_false |-> mask_index(y, anti_mask)]

split_data(x, y, split_pt) ==
    LET mask == mask_of(x, split_pt)
        anti_mask == anti_mask_of(x, split_pt)
    IN  [x_true |-> mask_index(x, mask),
         y_true |-> mask_index(y, mask),
         x_false |-> mask_index(x, anti_mask),
         y_false |-> mask_index(y, anti_mask)]

\* ---------------------------------------------------------------- MAE
\* len(y_true)/len(y) divides two Python ints: ZeroDivisionError for empty y.
MAE_raises(y) == Len(y) = 0

\* Variant of MAE: the weights divide by the samples kept, not by len(y).
MAE_kept_weights(y, y_true, y_false) ==
    LET kept == Len(y_true) + Len(y_false)
        y_true_hat == np_mean_ints(y_true)
        y_false_hat == np_mean_ints(y_false)
        y_hat == np_mean_ints(y)
        old_mae == np_mean(abs_dev(y, y_hat))
        new_mae == FAdd(FMul(truediv(Len(y_true), kept),
                             np_mean(abs_dev(y_true, y_true_hat))),
                        FMul(truediv(Len(y_false), kept),
                             np_mean(abs_dev(y_false, y_false_hat))))
    IN  [old_mae |-> old_mae, new_mae |-> new_mae]

\* Variant of MAE: old_mae taken over the samples kept by the split.
MAE_old_of_kept(y, y_true, y_false) ==
    LET kept == y_true \o y_false
        y_true_hat == np_mean_ints(y_true)
        y_false_hat == np_mean_ints(y_false)
        y_hat == np_mean_ints(kept)
        old_mae == np_mean(abs_dev(kept, y_hat))
        new_mae == FAdd(FMul(truediv(Len(y_true), Len(y)),
                             np_mean(abs_dev(y_true, y_true_hat))),
                        FMul(truediv(Len(y_false), Len(y)),
                             np_mean(abs_dev(y_false, y_false_hat))))
    IN  [old_mae |-> old_mae, new_mae |-> new_mae]

\* Variant of MAE: the deviations of the two parts are signed and taken from
\* the overall mean.
MAE_signed(y, y_true, y_false) ==
    LET y_hat == np_mean_ints(y)
        old_mae == np_mean(abs_dev(y, y_hat))
        signed_dev(a) == [i \in 1..Len(a) |-> FSub(FromInt(a[i]), y_hat)]
        new_mae == FAdd(FMul(truediv(Len(y_true), Len(y)), np_mean(signed_dev(y_true))),
                        FMul(truediv(Len(y_false), Len(y)), np_mean(signed_dev(y_false))))
    IN  [old_mae |-> old_mae, new_mae |-> new_mae]

\* Variant of weight_den: the weights divide by the samples the split kept.
weight_den_kept(y, y_true, y_false) == Len(y_true) + Len(y_false)

\* The count both weights of new_mae divide by: len(y).
weight_den(y, y_true, y_false) == Len(y)

\* The two weights of new_mae: len(y_true)/len(y) and len(y_false)/len(y).
weights(y, y_true, y_false) ==
    [w_true |-> truediv(Len(y_true), weight_den(y, y_true, y_false)),
     w_false |-> truediv(Len(y_false), weight_den(y, y_true, y_false))]

MAE(y, y_true, y_false) ==
    LET y_true_hat == np_mean_ints(y_true)
        y_false_hat == np_mean_ints(y_false)
        y_hat == np_mean_ints(y)
        old_mae == np_mean(abs_dev(y, y_hat))
        w == weights(y, y_true, y_false)
        new_mae == FAdd(FMul(w.w_true, np_mean(abs_dev(y_true, y_true_hat))),
                        FMul(w.w_false, np_mean(abs_dev(y_false, y_false_hat))))
    IN  [old_mae |-> old_mae, new_mae |-> new_mae]

\* ----------------------------------------------------- get_best_split
\* A dict is a sequence of [key, val] entries in insertion order.
dict_has(d, k) == \E i \in 1..Len(d) : d[i].key = k

dict_get(d, k) == d[CHOOSE i \in 1..Len(d) : d[i].key = k].val

\* d[k] = v: a key already present keeps its position and takes the new value.
dict_set(d, k, v) ==
    IF dict_has(d, k)
    THEN [i \in 1..Len(d) |-> IF d[i].key = k THEN [key |-> k, val |-> v] ELSE d[i]]
    ELSE Append(d, [key |-> k, val |-> v])

\* Variant of tuple_lt: only the first element is compared.
tuple_lt_first_only(a, b) == FLt(a.old_mae, b.old_mae)

\* Python's < on the tuples (old_mae, new_mae): the first pair of elements
\* that are not == decides, by <.
tuple_lt(a, b) ==
    IF ~FEq(a.old_mae, b.old_mae) THEN FLt(a.old_mae, b.old_mae)
    ELSE IF ~FEq(a.new_mae, b.new_mae) THEN FLt(a.new_mae, b.new_mae)
    ELSE FALSE

\* min(results, key=results.get) continued from position i with the best key
\* so far: a later key replaces it only when its value is < the best value.
RECURSIVE min_from(_, _, _)
min_from(d, i, best) ==
    IF i > Len(d) THEN best
    ELSE min_from(d, i + 1,
                  IF tuple_lt(d[i].val, dict_get(d, best)) THEN d[i].key ELSE best)

min_key(d) == min_from(d, 2, d[1].key)

\* The for loop over split_pts, from position i with the dict built so far.
RECURSIVE score_from(_, _, _, _, _)
score_from(x, y, split_pts, i, results) ==
    IF i > Len(split_pts) THEN results
    ELSE LET point == split_pts[i]
             parts == split_data(x, y, point)
             errors == MAE(y, parts.y_true, parts.y_false)
         IN  score_from(x, y, split_pts, i + 1, dict_set(results, point, errors))

\* min() of an empty dict raises ValueError.
get_best_split_raises(x, y) == Len(splits(x)) = 0

get_best_split(x, y) ==
    LET split_pts == splits(x)
        results == score_from(x, y, split_pts, 1, <<>>)
        best_point == min_key(results)
    IN  [results |-> results, best_point |-> best_point]

\* ----------------------------------------------------- splits_per_col
\* str(c) for c >= 0.
RECURSIVE str(_)
str(c) ==
    LET digit == <<"0", "1", "2", "3", "4", "5", "6", "7", "8", "9">>
    IN  IF c < 10 THEN digit[c + 1] ELSE str(c \div 10) \o digit[(c % 10) + 1]

\* data.shape[1] of an array given as its rows.
shape1(data) == Len(data[1])

\* Variant of column: column 0 whatever c.
column_first(data, c) == [r \in 1..Len(data) |-> data[r][1]]

\* data[:,c], c counted from 0.
column(data, c) == [r \in 1..Len(data) |-> data[r][c + 1]]

\* The for loop over range(ncols), from column c with the dict built so far.
RECURSIVE cols_from(_, _, _)
cols_from(data, c, col_split_pts) ==
    IF c >= shape1(data) THEN col_split_pts
    ELSE LET split_pts == splits(column(data, c))
         IN  cols_from(data, c + 1, dict_set(col_split_pts, "col_" \o str(c), split_pts))

splits_per_col(data) == cols_from(data, 0, <<>>)

\* ------------------------------------------------------- calls and state
\* The array of the notebook's Part 3 and an array of four samples whose
\* smallest feature value is duplicated.
NotebookData == <<<<7, 30, 27, 80, 43>>, <<53, 28, 83, 25, 75>>>>

DuplicateMinData == <<<<1, 1, 2, 3>>, <<1, 1, 1, 1>>>>

\* An array whose candidate 3 drops two samples and leaves two branches,
\* one of them with a positive mean absolute deviation.
DroppedSamplesData == <<<<1, 2, 3, 3, 4>>, <<1, 2, 1, 1, 1>>>>

\* An array whose candidates 1.5 and 3.5 both score 1/3 as fractions: in
\* float64 the two sums are 0.33333333333333337 and 0.3333333333333333.
RoundedTieData == <<<<1, 2, 3, 4>>, <<1, 2, 2, 3>>>>

\* The array of the notebook's Part 2.
Part2Data == <<<<25, 29, 22>>, <<36, 21, 38>>, <<82, 47, 92>>, <<47, 31, 79>>,
               <<82, 86, 89>>>>

\* The two-dimensional arrays splits_per_col is called with.
Matrices ==
    {Part2Data}
    \cup UNION {[1..rc[1] -> [1..rc[2] -> 1..MaxY]] :
                  rc \in (1..MaxRows) \X (1..MaxCols)}

\* Feature and target arrays of different lengths, as split_data may be given.
MismatchedInputs ==
    UNION {[1..nm[1] -> 1..MaxX] \X [1..nm[2] -> {1}] :
              nm \in {p \in (0..MaxLen) \X (0..MaxLen) : p[1] # p[2]}}

Inputs ==
    {NotebookData, DuplicateMinData, DroppedSamplesData, RoundedTieData}
    \cup UNION {[1..n -> 1..MaxX] \X [1..n -> 1..MaxY] : n \in 0..MaxLen}
    \cup MismatchedInputs

\* The thresholds split_data is called with: the feature values and the
\* candidates of the array (one threshold in every gap between two values),
\* 0.5, which is below every value, and the notebook's 70, above them all.
Thresholds(x) ==
    LET split_pts == splits(x)
    IN  {truediv(1, 2), FromInt(70)}
        \cup {FromInt(x[i]) : i \in 1..Len(x)}
        \cup {split_pts[i] : i \in 1..Len(split_pts)}

NoParts == [x_true |-> <<>>, y_true |-> <<>>, x_false |-> <<>>, y_false |-> <<>>]

NoMae == [old_mae |-> FromInt(-1), new_mae |-> FromInt(-1)]

NoGbs == [results |-> <<>>, best_point |-> NaN]

\* What is remembered of a run to compare later calls with: the arrays as
\* they were given, the number of calls made, and each function's first
\* outcome ("never" before its first call) with the arguments it had, and
\* how many times each function was called.
NoTimes == [splits |-> 0, split_data |-> 0, MAE |-> 0, get_best_split |-> 0]

NoFirst ==
    [splits |-> [outcome |-> "never", ret |-> <<>>],
     split_data |-> [outcome |-> "never", pt |-> NaN, ret |-> NoParts],
     MAE |-> [outcome |-> "never", parts |-> NoParts, ret |-> NoMae],
     get_best_split |-> [outcome |-> "never", ret |-> NoGbs]]

note_first(h, f, entry) ==
    IF h.first[f].outcome = "never"
    THEN [h EXCEPT !.first[f] = entry, !.times[f] = @ + 1]
    ELSE [h EXCEPT !.times[f] = @ + 1]

\* A run starts with the arrays of its calls: either a feature and a target
\* array, or a two-dimensional array.
Init ==
    /\ \/ /\ \E d \in Inputs : arg_x = d[1] /\ arg_y = d[2]
          /\ arg_data = <<>>
       \/ /\ arg_data \in Matrices
          /\ arg_x = <<>>
          /\ arg_y = <<>>
    /\ ret_cols = <<>>
    /\ arg_pt = NaN
    /\ pc = "idle"
    /\ called = "none"
    /\ raised = "none"
    /\ ret_splits = <<>>
    /\ ret_parts = NoParts
    /\ ret_mae = NoMae
    /\ ret_gbs = NoGbs
    /\ hist = [orig_x |-> arg_x, orig_y |-> arg_y, calls |-> 0,
               first |-> NoFirst, times |-> NoTimes]
    /\ conc = <<>>
    /\ frames = <<>>

CallSplits ==
    /\ pc = "idle"
    /\ arg_data = <<>>
    /\ called' = "splits"
    /\ ret_splits' = splits_call(ret_splits, arg_x)
    /\ arg_x' = x_after_splits(arg_x)
    /\ raised' = "none"
    /\ pc' = "done"
    /\ hist' = note_first(hist, "splits", [outcome |-> "none", ret |-> ret_splits'])
    /\ UNCHANGED <<conc, frames>>
    /\ UNCHANGED <<arg_data, ret_cols, arg_y, arg_pt, ret_parts, ret_mae, ret_gbs>>

CallSplitData ==
    /\ pc = "idle"
    /\ arg_data = <<>>
    /\ \E t \in Thresholds(arg_x) :
          /\ arg_pt' = t
          /\ \E raises \in split_data_raises(arg_x, arg_y, t) :
                IF raises
                THEN raised' = "IndexError" /\ pc' = "done" /\ UNCHANGED ret_parts
                ELSE /\ ret_parts' = split_data(arg_x, arg_y, t)
                     /\ pc' = "split"
                     /\ raised' = "none"
    /\ called' = "split_data"
    /\ hist' = note_first(hist, "split_data",
                          [outcome |-> raised', pt |-> arg_pt', ret |-> ret_parts'])
    /\ UNCHANGED <<conc, frames>>
    /\ UNCHANGED <<arg_data, ret_cols, arg_x, arg_y, ret_splits, ret_mae, ret_gbs>>

\* MAE(int_twoDlist[:,1], y_true, y_false) on what split_data returned.
CallMAE ==
    /\ pc = "split"
    /\ called' = "MAE"
    /\ IF MAE_raises(arg_y)
       THEN raised' = "ZeroDivisionError" /\ UNCHANGED ret_mae
       ELSE /\ ret_mae' = MAE(arg_y, ret_parts.y_true, ret_parts.y_false)
            /\ raised' = "none"
    /\ pc' = "done"
    /\ hist' = note_first(hist, "MAE",
                          [outcome |-> raised', parts |-> ret_parts, ret |-> ret_mae'])
    /\ UNCHANGED <<conc, frames>>
    /\ UNCHANGED <<arg_data, ret_cols, arg_x, arg_y, arg_pt, ret_splits, ret_parts, ret_gbs>>

\* get_best_split(data) takes x and y as columns of one array: equal lengths.
\* Its call of splits is given x itself (a view of data).
CallGetBestSplit ==
    /\ pc = "idle"
    /\ Len(arg_x) = Len(arg_y)
    /\ arg_data = <<>>
    /\ called' = "get_best_split"
    /\ IF get_best_split_raises(arg_x, arg_y)
       THEN raised' = "ValueError" /\ UNCHANGED ret_gbs
       ELSE /\ ret_gbs' = get_best_split(arg_x, arg_y)
            /\ raised' = "none"
    /\ arg_x' = x_after_splits(arg_x)
    /\ pc' = "done"
    /\ hist' = note_first(hist, "get_best_split", [outcome |-> raised', ret |-> ret_gbs'])
    /\ UNCHANGED <<conc, frames>>
    /\ UNCHANGED <<arg_data, ret_cols, arg_y, arg_pt, ret_splits, ret_parts, ret_mae>>

CallSplitsPerCol ==
    /\ pc = "idle"
    /\ arg_data # <<>>
    /\ called' = "splits_per_col"
    /\ ret_cols' = splits_per_col(arg_data)
    /\ raised' = "none"
    /\ pc' = "done"
    /\ UNCHANGED <<conc, frames>>
    /\ UNCHANGED <<arg_data, arg_x, arg_y, arg_pt, hist,
                   ret_splits, ret_parts, ret_mae, ret_gbs>>

Next ==
    \/ CallSplits
    \/ CallSplitData
    \/ CallMAE
    \/ CallGetBestSplit
    \/ CallSplitsPerCol

Spec == Init /\ [][Next]_vars

\* ----------------------------------------------------- concurrent calls
\* Two callers (threads) run get_best_split at the same time, each on its own
\* array; a step of a caller is the entry of the function, one pass of its
\* for loop, or its end, and the steps of the callers interleave freely.
Callers == {1, 2}

ConcInputs ==
    {NotebookData, DuplicateMinData}
    \cup UNION {[1..n -> 1..MaxX] \X [1..n -> 1..MaxY] : n \in 1..2}

\* Variant of frame_of: results is one module-level dict for all the calls.
frame_shared(p) == 1

\* The frame holding the local names of caller p's call: results = {} binds
\* a local of the call, so every call has its own.
frame_of(p) == p

InitConc ==
    /\ arg_data = <<>>
    /\ arg_x = <<>>
    /\ arg_y = <<>>
    /\ ret_cols = <<>>
    /\ arg_pt = NaN
    /\ pc = "concurrent"
    /\ called = "none"
    /\ raised = "none"
    /\ ret_splits = <<>>
    /\ ret_parts = NoParts
    /\ ret_mae = NoMae
    /\ ret_gbs = NoGbs
    /\ hist = [orig_x |-> arg_x, orig_y |-> arg_y, calls |-> 0,
               first |-> NoFirst, times |-> NoTimes]
    /\ \E d \in [Callers -> ConcInputs] :
          conc = [p \in Callers |->
                    [pc |-> "start", x |-> d[p][1], y |-> d[p][2],
                     split_pts |-> <<>>, i |-> 0, raised |-> "none",
                     ret |-> NoGbs, overlap |-> FALSE]]
    /\ frames = [f \in Callers |-> <<>>]

Results_of(p) == frames[frame_of(p)]

\* x = data[:,0]; y = data[:,1]; split_pts = splits(x); results = {}
GbsEnter(p) ==
    /\ conc[p].pc = "start"
    /\ conc' = [conc EXCEPT ![p].pc = "loop",
                            ![p].split_pts = splits(conc[p].x),
                            ![p].i = 1,
                            ![p].overlap = \E q \in Callers \ {p} : conc[q].pc = "loop"]
    /\ frames' = [frames EXCEPT ![frame_of(p)] = <<>>]

\* One pass of the for loop: split_data, MAE, results[point] = errors.
GbsPass(p) ==
    /\ conc[p].pc = "loop"
    /\ conc[p].i <= Len(conc[p].split_pts)
    /\ LET point == conc[p].split_pts[conc[p].i]
           parts == split_data(conc[p].x, conc[p].y, point)
           errors == MAE(conc[p].y, parts.y_true, parts.y_false)
       IN  frames' = [frames EXCEPT ![frame_of(p)] = dict_set(@, point, errors)]
    /\ conc' = [conc EXCEPT ![p].i = @ + 1]

\* best_point = min(results, key=results.get); return results, best_point
GbsReturn(p) ==
    /\ conc[p].pc = "loop"
    /\ conc[p].i > Len(conc[p].split_pts)
    /\ IF Len(Results_of(p)) = 0
       THEN conc' = [conc EXCEPT ![p].pc = "done", ![p].raised = "ValueError"]
       ELSE conc' = [conc EXCEPT ![p].pc = "done",
                                 ![p].ret = [results |-> Results_of(p),
                                             best_point |-> min_key(Results_of(p))]]
    /\ UNCHANGED frames

NextConc ==
    \E p \in Callers :
        /\ GbsEnter(p) \/ GbsPass(p) \/ GbsReturn(p)
        /\ UNCHANGED <<arg_data, ret_cols, arg_x, arg_y, arg_pt, pc, called, raised,
                       ret_splits, ret_parts, ret_mae, ret_gbs, hist>>

SpecConc == InitConc /\ [][NextConc]_vars

\* ------------------------------------------------------- repeated calls
\* Runs of several calls on the same arrays: after a call has ended the
\* next cell may call any of the functions again.
MaxCalls == 2

RepeatInputs ==
    {NotebookData, DuplicateMinData}
    \cup ([1..2 -> 1..MaxX] \X [1..2 -> 1..MaxY])

InitRepeat ==
    /\ Init
    /\ arg_data = <<>>
    /\ <<arg_x, arg_y>> \in RepeatInputs

NextCell ==
    /\ pc \in {"done", "split"}
    /\ hist.calls + 1 < MaxCalls
    /\ pc' = "idle"
    /\ hist' = [hist EXCEPT !.calls = @ + 1]
    /\ UNCHANGED <<conc, frames>>
    /\ UNCHANGED <<arg_data, ret_cols, arg_x, arg_y, arg_pt, called, raised,
                   ret_splits, ret_parts, ret_mae, ret_gbs>>

NextRepeat ==
    \/ CallSplits
    \/ CallSplitData
    \/ CallMAE
    \/ CallGetBestSplit
    \/ NextCell

SpecRepeat == InitRepeat /\ [][NextRepeat]_vars

\* ------------------------------------------------------------ properties
\* Vocabulary of the properties, stated on integers and index sets.
Results == ret_gbs.results

BestPoint == ret_gbs.best_point

GbsReturned == called = "get_best_split" /\ raised = "none"

SplitReturned == (called = "split_data" /\ raised = "none") \/ called = "MAE"

\* v > t, v < t, v = t for an integer v and a threshold t that is not NaN.
Above(v, t) == FLt(t, FromInt(v))

Below(v, t) == FLt(FromInt(v), t)

AtPoint(v, t) == FEq(FromInt(v), t)

\* The integer 0 <= i < 2^30 as a mantissa-sized natural.
Limbs(i) == <<i % Base, i \div Base, 0, 0>>

\* a \div 2^k for a wide natural.
WShr(a, k) ==
    LET w == k \div 15
        p == 2^(k % 15)
        up == 2^(15 - (k % 15))
    IN  [i \in 1..8 |-> (Limb(a, i + w) \div p) + (Limb(a, i + w + 1) % p) * up]

\* For a float f > 0 with -80 <= f.e <= 30 and integers 0 <= p, 0 < q below
\* 2^30: the wide naturals f * q * 2^k and p * 2^k, with k the least shift
\* that makes the first one whole.
ScaledLeft(f, q) == WShl(WMul(f.m, Limbs(q)), IF f.e > 0 THEN f.e ELSE 0)

ScaledRight(f, p) == WShl(Wide(Limbs(p)), IF f.e < 0 THEN -f.e ELSE 0)

InScale(f) == -80 <= f.e /\ f.e <= 30

\* f is exactly the fraction p / q.
IsRatio(f, p, q) ==
    /\ ~IsNaN(f)
    /\ ~f.neg
    /\ IF IsZero(f) THEN p = 0
       ELSE InScale(f) /\ ScaledLeft(f, q) = ScaledRight(f, p)

\* f is the fraction p / q up to rounding: |f - p/q| <= 2^-40 * p/q, a
\* relative error far above what the few float64 operations of a score
\* leave (each at most 2^-53) and far below the distance of two scores of
\* these arrays that differ as fractions.
Near(f, p, q) ==
    /\ ~IsNaN(f)
    /\ ~f.neg
    /\ IF IsZero(f) THEN p = 0
       ELSE /\ InScale(f)
            /\ LET l == ScaledLeft(f, q)
                   r == ScaledRight(f, p)
                   d == IF WLt(l, r) THEN WSub(r, l) ELSE WSub(l, r)
               IN  ~WLt(WShr(r, 40), d)

\* f > 0.
Positive(f) == FLt(Zero, f)

IdxAbove(x, t) == {i \in 1..Len(x) : Above(x[i], t)}

IdxBelow(x, t) == {i \in 1..Len(x) : Below(x[i], t)}

IdxAt(x, t) == {i \in 1..Len(x) : AtPoint(x[i], t)}

\* The k-th smallest index of a set of indices.
KthIndex(S, k) == CHOOSE i \in S : Cardinality({j \in S : j < i}) = k - 1

\* a is the subsequence of b at the indices S, in b's order.
IsSelection(a, b, S) ==
    /\ Len(a) = Cardinality(S)
    /\ \A k \in 1..Len(a) : a[k] = b[KthIndex(S, k)]

\* The i-th smallest value of x, counted with multiplicity.
KthSmallest(x, i) ==
    CHOOSE v \in {x[j] : j \in 1..Len(x)} :
        /\ Cardinality({j \in 1..Len(x) : x[j] < v}) < i
        /\ i <= Cardinality({j \in 1..Len(x) : x[j] <= v})

\* Len(a)^2 times the mean absolute deviation of a from its mean.
ScaledDev(a) == IntSum([i \in 1..Len(a) |-> Abs(Len(a) * a[i] - IntSum(a))])

LeQ(a, b) == FLt(a, b) \/ FEq(a, b)

EntryOf(k) == CHOOSE j \in 1..Len(Results) : Results[j].key = k

\* C1: for arrays of equal length n >= 2, get_best_split returns a mapping
\* with one entry per candidate threshold of splits(x), each entry the MAE
\* score of the partition split_data makes there, and a best threshold that
\* is a key of the mapping whose new_mae is minimal: no entry with a numeric
\* new_mae scores below it.
C1_BestIsMinimal ==
    (GbsReturned /\ Len(arg_x) >= 2) =>
        /\ \A i \in 1..Len(splits(arg_x)) :
              \E j \in 1..Len(Results) :
                 /\ Results[j].key = splits(arg_x)[i]
                 /\ LET parts == split_data(arg_x, arg_y, splits(arg_x)[i])
                    IN  Results[j].val = MAE(arg_y, parts.y_true, parts.y_false)
        /\ \A j \in 1..Len(Results) :
              \E i \in 1..Len(splits(arg_x)) : Results[j].key = splits(arg_x)[i]
        /\ \E j \in 1..Len(Results) :
              /\ Results[j].key = BestPoint
              /\ \A k \in 1..Len(Results) :
                    ~IsNaN(Results[k].val.new_mae) =>
                        LeQ(Results[j].val.new_mae, Results[k].val.new_mae)

\* C2: the threshold get_best_split returns as best never leaves the
\* true-branch or the false-branch empty: some sample lies above it and some
\* sample lies below it.
C2_BestNeverEmptyBranch ==
    (GbsReturned /\ Len(arg_x) >= 2) =>
        /\ IdxAbove(arg_x, BestPoint) # {}
        /\ IdxBelow(arg_x, BestPoint) # {}

\* C3: split_data returns in the true branch exactly the samples with
\* x[i] > t and in the false branch exactly the samples with x[i] < t, the
\* x and y parts of a branch holding the same samples in their original
\* order; a sample with x[i] = t is in neither branch.
C3_SplitDataStrict ==
    SplitReturned =>
        LET above == IdxAbove(arg_x, arg_pt)
            below == IdxBelow(arg_x, arg_pt)
        IN  /\ IsSelection(ret_parts.x_true, arg_x, above)
            /\ IsSelection(ret_parts.y_true, arg_y, above)
            /\ IsSelection(ret_parts.x_false, arg_x, below)
            /\ IsSelection(ret_parts.y_false, arg_y, below)

C3_Witness ==
    /\ called = "split_data"
    /\ IdxAt(arg_x, arg_pt) # {}
    /\ Len(ret_parts.y_true) >= 1
    /\ Len(ret_parts.y_false) >= 1
    /\ ret_parts.y_true # ret_parts.x_true

\* C4: for non-empty y, y_true and y_false, MAE returns old_mae = the mean
\* over y of |y_i - mean(y)| and new_mae = |y_true|/|y| times the mean
\* absolute deviation of y_true plus |y_false|/|y| times that of y_false.
\* With n, t, f the three lengths: old_mae = ScaledDev(y) / n^2 and
\* new_mae = ScaledDev(y_true) / (t n) + ScaledDev(y_false) / (f n), each up
\* to the rounding of float64 (a relative error of at most 2^-40).
C4_MaeFormula ==
    (called = "MAE" /\ raised = "none"
        /\ Len(ret_parts.y_true) > 0 /\ Len(ret_parts.y_false) > 0) =>
        LET n == Len(arg_y)
            t == Len(ret_parts.y_true)
            f == Len(ret_parts.y_false)
        IN  /\ Near(ret_mae.old_mae, ScaledDev(arg_y), n * n)
            /\ Near(ret_mae.new_mae,
                    ScaledDev(ret_parts.y_true) * f + ScaledDev(ret_parts.y_false) * t,
                    n * t * f)

C4_Witness ==
    /\ called = "MAE"
    /\ raised = "none"
    /\ Len(ret_parts.y_true) > 0
    /\ Len(ret_parts.y_false) > 0
    /\ Len(ret_parts.y_true) + Len(ret_parts.y_false) < Len(arg_y)
    /\ Positive(ret_mae.new_mae)

\* C5: for an input of length n >= 2, splits returns n-1 values, the i-th
\* being the midpoint of the i-th and (i+1)-th smallest elements of the
\* input, whatever the order of the input.
C5_SplitsMidpoints ==
    (called = "splits" /\ Len(arg_x) >= 2) =>
        /\ Len(ret_splits) = Len(arg_x) - 1
        /\ \A i \in 1..Len(ret_splits) :
              IsRatio(ret_splits[i],
                      KthSmallest(arg_x, i) + KthSmallest(arg_x, i + 1), 2)

C5_Witness ==
    /\ called = "splits"
    /\ Len(arg_x) >= 3
    /\ arg_x[1] > arg_x[2]
    /\ arg_x[2] < arg_x[3]
    /\ Len(ret_splits) = Len(arg_x) - 1

\* The scores the notebook's recorded output shows that are not the float64
\* nearest to a fraction: 18.93333333333333 and 21.333333333333336.
Recorded_18_93 ==
    [nan |-> FALSE, neg |-> FALSE, m |-> <<28398, 24029, 15291, 151>>, e |-> -48]

Recorded_21_33 ==
    [nan |-> FALSE, neg |-> FALSE, m |-> <<21846, 10922, 21845, 170>>, e |-> -48]

\* C6: for features [7,30,27,80,43] and targets [53,28,83,25,75],
\* get_best_split returns the thresholds 17.0, 28.5, 36.5, 61.5 with old_mae
\* 21.04 and new_mae 21.0, 18.93333333333333, 21.333333333333336 and 15.4,
\* the float64 values of the notebook's recorded output, and the best
\* threshold 61.5.
C6_NotebookExample ==
    (GbsReturned /\ <<arg_x, arg_y>> = NotebookData) =>
        /\ BestPoint = truediv(123, 2)
        /\ Results =
             << [key |-> FromInt(17),
                 val |-> [old_mae |-> truediv(2104, 100), new_mae |-> FromInt(21)]],
                [key |-> truediv(57, 2),
                 val |-> [old_mae |-> truediv(2104, 100), new_mae |-> Recorded_18_93]],
                [key |-> truediv(73, 2),
                 val |-> [old_mae |-> truediv(2104, 100), new_mae |-> Recorded_21_33]],
                [key |-> truediv(123, 2),
                 val |-> [old_mae |-> truediv(2104, 100), new_mae |-> truediv(154, 10)]] >>

C6_Witness ==
    /\ GbsReturned
    /\ <<arg_x, arg_y>> = NotebookData
    /\ Len(Results) = 4

\* C7: when all feature values are identical, get_best_split ends with a
\* NoValidSplit error and returns no mapping and no best threshold.
C7_IdenticalFeaturesRaise ==
    (called = "get_best_split" /\ Len(arg_x) >= 2
        /\ \A i \in 1..Len(arg_x) : arg_x[i] = arg_x[1]) =>
        /\ raised = "NoValidSplit"
        /\ ret_gbs = NoGbs

\* C8: when two or more thresholds share the minimal new_mae, the best
\* threshold get_best_split returns is the smallest of them.
C8_TieTakesSmallest ==
    GbsReturned =>
        LET Num == {j \in 1..Len(Results) : ~IsNaN(Results[j].val.new_mae)}
            Min == {j \in Num : \A k \in Num :
                       LeQ(Results[j].val.new_mae, Results[k].val.new_mae)}
        IN  Cardinality(Min) >= 2 =>
               /\ BestPoint \in {Results[j].key : j \in Min}
               /\ \A j \in Min : LeQ(BestPoint, Results[j].key)

\* C9: MAE given an empty true-branch or an empty false-branch and a
\* non-empty y ends without an error and returns NaN as new_mae.
C9_EmptyBranchGivesNaN ==
    (called = "MAE" /\ Len(arg_y) > 0
        /\ (Len(ret_parts.y_true) = 0 \/ Len(ret_parts.y_false) = 0)) =>
        /\ raised = "none"
        /\ IsNaN(ret_mae.new_mae)
        /\ ~IsNaN(ret_mae.old_mae)

C9_Witness ==
    /\ called = "MAE"
    /\ Len(arg_y) >= 2
    /\ Len(ret_parts.y_true) = 0
    /\ Len(ret_parts.y_false) >= 1
    /\ raised = "none"
    /\ IsNaN(ret_mae.new_mae)

\* C10: for any threshold, the samples of the true branch, of the false
\* branch and those equal to the threshold are pairwise disjoint and cover
\* every sample: |true| + |false| + |equal| = n.
C10_DisjointCover ==
    SplitReturned =>
        LET n == Len(arg_x)
            T == {i \in 1..n : mask_of(arg_x, arg_pt)[i]}
            F == {i \in 1..n : anti_mask_of(arg_x, arg_pt)[i]}
            E == IdxAt(arg_x, arg_pt)
        IN  /\ T \cap F = {}
            /\ T \cap E = {}
            /\ F \cap E = {}
            /\ T \cup F \cup E = 1..n
            /\ Len(ret_parts.x_true) = Cardinality(T)
            /\ Len(ret_parts.x_false) = Cardinality(F)
            /\ Len(ret_parts.x_true) + Len(ret_parts.x_false) + Cardinality(E) = n
            /\ Len(ret_parts.y_true) + Len(ret_parts.y_false) + Cardinality(E) = n

C10_Witness ==
    /\ called = "split_data"
    /\ Cardinality(IdxAt(arg_x, arg_pt)) >= 2
    /\ Len(ret_parts.x_true) >= 1
    /\ Len(ret_parts.x_false) = 0

\* C11: in the mapping get_best_split returns, old_mae is the same value in
\* every entry, and it is the mean absolute deviation of y alone (up to the
\* rounding of float64), whatever the threshold and the feature array.
C11_OldMaeInvariant ==
    GbsReturned =>
        \A j \in 1..Len(Results) :
            /\ Results[j].val.old_mae = Results[1].val.old_mae
            /\ Near(Results[j].val.old_mae, ScaledDev(arg_y),
                    Len(arg_y) * Len(arg_y))

C11_Witness ==
    /\ GbsReturned
    /\ Len(Results) >= 2
    /\ Positive(Results[1].val.old_mae)
    /\ IdxAt(arg_x, Results[2].key) # {}

Distinct(x) == \A i, j \in 1..Len(x) : i # j => x[i] # x[j]

\* The i-th and (i+1)-th smallest values of x have an odd sum, and f is
\* their midpoint: a value ending in .5.
IsHalfway(f, x, i) ==
    LET sum == KthSmallest(x, i) + KthSmallest(x, i + 1)
    IN  sum % 2 = 1 /\ IsRatio(f, sum, 2)

\* C12: for n pairwise distinct values splits returns n-1 midpoints, the
\* i-th strictly greater than the i-th and strictly less than the (i+1)-th
\* value of the sorted input.
C12_MidpointsStrictlyBetween ==
    (called = "splits" /\ Len(arg_x) >= 1 /\ Distinct(arg_x)) =>
        /\ Len(ret_splits) = Len(arg_x) - 1
        /\ \A i \in 1..Len(ret_splits) :
              /\ Above(KthSmallest(arg_x, i + 1), ret_splits[i])
              /\ Below(KthSmallest(arg_x, i), ret_splits[i])

C12_Witness ==
    /\ called = "splits"
    /\ Distinct(arg_x)
    /\ Len(arg_x) >= 3
    /\ Len(ret_splits) = Len(arg_x) - 1
    /\ \E i \in 1..Len(ret_splits) : IsHalfway(ret_splits[i], arg_x, i)

\* C13: with duplicate values in the input splits does not fail, returns
\* one entry per consecutive pair of the sorted input, and the entry of a
\* pair of equal values is that value.
C13_DuplicatesKept ==
    (called = "splits" /\ Len(arg_x) >= 2 /\ ~Distinct(arg_x)) =>
        /\ raised = "none"
        /\ Len(ret_splits) = Len(arg_x) - 1
        /\ \A i \in 1..(Len(arg_x) - 1) :
              KthSmallest(arg_x, i) = KthSmallest(arg_x, i + 1) =>
                  ret_splits[i] = FromInt(KthSmallest(arg_x, i))

C13_Witness ==
    /\ called = "splits"
    /\ Len(arg_x) >= 3
    /\ ~Distinct(arg_x)
    /\ \E i \in 1..Len(ret_splits) :
          /\ KthSmallest(arg_x, i) = KthSmallest(arg_x, i + 1)
          /\ IsRatio(ret_splits[i], KthSmallest(arg_x, i), 1)
    /\ \E i \in 1..Len(ret_splits) : IsHalfway(ret_splits[i], arg_x, i)

\* C14: splits called on an input of length 0 or 1 fails with an
\* InvalidInput error instead of returning a list of thresholds.
C14_ShortInputRaises ==
    (called = "splits" /\ Len(arg_x) < 2) =>
        /\ raised = "InvalidInput"
        /\ ret_splits = <<>>

GeZero(a) == ~IsNaN(a) /\ ~a.neg

\* C16 as stated: for any non-empty input, old_mae >= 0 and new_mae >= 0 in
\* what MAE returns and in every entry of the mapping of get_best_split.
C16_ScoresNonNegative ==
    /\ (called = "MAE" /\ raised = "none") =>
          GeZero(ret_mae.old_mae) /\ GeZero(ret_mae.new_mae)
    /\ GbsReturned =>
          \A j \in 1..Len(Results) :
             GeZero(Results[j].val.old_mae) /\ GeZero(Results[j].val.new_mae)

\* C16 as amended: old_mae >= 0 always; new_mae >= 0 when both branches are
\* non-empty, and NaN (neither >= 0 nor < 0) when a branch is empty.
C16_NonNegativeOrNaN ==
    /\ (called = "MAE" /\ raised = "none") =>
          /\ GeZero(ret_mae.old_mae)
          /\ IF Len(ret_parts.y_true) > 0 /\ Len(ret_parts.y_false) > 0
             THEN GeZero(ret_mae.new_mae)
             ELSE IsNaN(ret_mae.new_mae)
    /\ GbsReturned =>
          \A j \in 1..Len(Results) :
             /\ GeZero(Results[j].val.old_mae)
             /\ IF IdxAbove(arg_x, Results[j].key) # {}
                     /\ IdxBelow(arg_x, Results[j].key) # {}
                THEN GeZero(Results[j].val.new_mae)
                ELSE IsNaN(Results[j].val.new_mae)

C16_Witness ==
    /\ GbsReturned
    /\ \E j \in 1..Len(Results) : IsNaN(Results[j].val.new_mae)
    /\ \E j \in 1..Len(Results) : Positive(Results[j].val.new_mae)

\* C20: for n >= 2 pairwise distinct feature values every candidate of
\* get_best_split drops no sample and leaves both branches non-empty: the
\* mapping has n-1 entries, the j-th (from 1, ascending) with j samples below
\* and n-j samples above its threshold, and every new_mae is a number.
C20_DistinctFeaturesAllValid ==
    (GbsReturned /\ Len(arg_x) >= 2 /\ Distinct(arg_x)) =>
        /\ Len(Results) = Len(arg_x) - 1
        /\ \A j \in 1..Len(Results) :
              /\ IdxAt(arg_x, Results[j].key) = {}
              /\ Cardinality(IdxBelow(arg_x, Results[j].key)) = j
              /\ Cardinality(IdxAbove(arg_x, Results[j].key)) = Len(arg_x) - j
              /\ ~IsNaN(Results[j].val.new_mae)

C20_Witness ==
    /\ GbsReturned
    /\ Distinct(arg_x)
    /\ Len(arg_x) >= 3
    /\ arg_x[2] > arg_x[3]
    /\ Len(Results) = Len(arg_x) - 1

\* C15: split_data called with a feature array and a target array of
\* different lengths fails, whatever the lengths and the threshold, and
\* returns no partition (the code has no LengthMismatch error of its own:
\* the failure it can end with is numpy's IndexError for a boolean index of
\* the wrong length).
C15_LengthMismatchRaises ==
    (called = "split_data" /\ Len(arg_x) # Len(arg_y)) =>
        /\ raised = "IndexError"
        /\ ret_parts = NoParts
        /\ pc = "done"

ColNames == <<"col_0", "col_1", "col_2", "col_3">>

\* C19: for an array with c columns splits_per_col returns a dictionary with
\* exactly the keys col_0 .. col_<c-1>, in that order, the value of col_j
\* being the midpoints of the consecutive sorted values of column j alone.
C19_SplitsPerColumn ==
    called = "splits_per_col" =>
        LET nrows == Len(arg_data)
            ncols == Len(arg_data[1])
        IN  /\ Len(ret_cols) = ncols
            /\ \A j \in 1..ncols :
                  LET col == [r \in 1..nrows |-> arg_data[r][j]]
                      pts == ret_cols[j].val
                  IN  /\ ret_cols[j].key = ColNames[j]
                      /\ Len(pts) = nrows - 1
                      /\ \A i \in 1..Len(pts) :
                            IsRatio(pts[i],
                                    KthSmallest(col, i) + KthSmallest(col, i + 1), 2)

C19_Witness ==
    /\ called = "splits_per_col"
    /\ arg_data = Part2Data
    /\ Len(ret_cols) = 3
    /\ ret_cols[1].val = <<truediv(61, 2), truediv(83, 2), truediv(129, 2), truediv(82, 1)>>
    /\ ret_cols[2].val = <<truediv(25, 1), truediv(30, 1), truediv(39, 1), truediv(133, 2)>>
    /\ ret_cols[3].val = <<truediv(30, 1), truediv(117, 2), truediv(84, 1), truediv(181, 2)>>

\* C17: splits, split_data, MAE and get_best_split leave their input arrays
\* as they were given, and keep no state between calls: after any sequence
\* of calls, a call with the arguments of a function's first call ends as
\* that first call did, with the same exception or the same result.
C17_NoMutationNoState ==
    /\ arg_x = hist.orig_x
    /\ arg_y = hist.orig_y
    /\ called = "splits" =>
          /\ raised = hist.first.splits.outcome
          /\ ret_splits = hist.first.splits.ret
    /\ (called = "split_data" /\ arg_pt = hist.first.split_data.pt) =>
          /\ raised = hist.first.split_data.outcome
          /\ ret_parts = hist.first.split_data.ret
    /\ (called = "MAE" /\ ret_parts = hist.first.MAE.parts) =>
          /\ raised = hist.first.MAE.outcome
          /\ ret_mae = hist.first.MAE.ret
    /\ called = "get_best_split" =>
          /\ raised = hist.first.get_best_split.outcome
          /\ ret_gbs = hist.first.get_best_split.ret

C17_Witness ==
    /\ called = "splits"
    /\ hist.times.splits = 2
    /\ Len(arg_x) >= 4
    /\ arg_x[2] > arg_x[3]
    /\ ret_splits # <<>>

\* C18: when several callers run get_best_split at the same time, each on
\* its own arrays, every caller ends, under every interleaving of their
\* steps, with the mapping and best threshold (or the exception) of a call
\* running alone: no step of one caller changes what another one computes.
C18_ConcurrentCallsIndependent ==
    \A p \in DOMAIN conc :
        conc[p].pc = "done" =>
              IF get_best_split_raises(conc[p].x, conc[p].y)
              THEN conc[p].raised = "ValueError" /\ conc[p].ret = NoGbs
              ELSE /\ conc[p].raised = "none"
                   /\ conc[p].ret = get_best_split(conc[p].x, conc[p].y)

C18_Witness ==
    /\ pc = "concurrent"
    /\ \A p \in Callers : conc[p].pc = "done"
    /\ conc[2].overlap
    /\ Len(conc[1].ret.results) = 4
    /\ Len(conc[2].ret.results) = 3
    /\ conc[2].ret.best_point = truediv(1, 1)

\* C21: in get_best_split the two weights of new_mae are the sizes of the
\* two partitions divided by the full sample count n: with k samples at the
\* threshold they sum to (n-k)/n, and to 1 exactly when k = 0. The returned
\* new_mae carries these weights: with a samples above and b below, both
\* positive, it is ScaledDev(above)/(a n) + ScaledDev(below)/(b n).  The
\* weights are the float64 nearest to these fractions, and the sums hold up
\* to the rounding of float64.
C21_WeightsOverFullCount ==
    GbsReturned =>
        \A j \in 1..Len(Results) :
            LET t == Results[j].key
                parts == split_data(arg_x, arg_y, t)
                w == weights(arg_y, parts.y_true, parts.y_false)
                n == Len(arg_y)
                a == Cardinality(IdxAbove(arg_x, t))
                b == Cardinality(IdxBelow(arg_x, t))
                k == Cardinality(IdxAt(arg_x, t))
                new_mae == Results[j].val.new_mae
            IN  /\ w.w_true = truediv(a, n)
                /\ w.w_false = truediv(b, n)
                /\ Near(FAdd(w.w_true, w.w_false), n - k, n)
                /\ Near(FAdd(w.w_true, w.w_false), 1, 1) <=> (k = 0)
                /\ (a > 0 /\ b > 0) =>
                      Near(new_mae,
                           ScaledDev(parts.y_true) * b + ScaledDev(parts.y_false) * a,
                           n * a * b)

C21_Witness ==
    /\ GbsReturned
    /\ \E j \in 1..Len(Results) :
          /\ Cardinality(IdxAt(arg_x, Results[j].key)) = 2
          /\ Cardinality(IdxAbove(arg_x, Results[j].key)) > 0
          /\ Cardinality(IdxBelow(arg_x, Results[j].key)) > 0
          /\ Results[j].val.new_mae = truediv(1, 5)
    /\ \E j \in 1..Len(Results) :
          /\ IdxAt(arg_x, Results[j].key) = {}
          /\ Positive(Results[j].val.new_mae)

====
